---- MODULE Spec2Model ----
(***************************************************************************)
(* The websocket part of HollaExKit (src/kit.js, second copy of the class, *)
(* lines 2310-5632): connect / disconnect / subscribe / unsubscribe, the   *)
(* lifecycle handlers connect() installs on the socket, and the reconnect  *)
(* timers they arm.  The `ws` sockets themselves are the environment: they *)
(* change readyState and emit open / error / close / unexpected-response   *)
(* the way ws 7.4.0 does (error is emitted with the emitter CLOSING, close *)
(* with the emitter CLOSED, unexpected-response with the emitter still     *)
(* CONNECTING and, since a listener exists, without aborting).             *)
(*                                                                         *)
(* A string is modelled as the sequence of its pieces ("orderbook:s1" is   *)
(* <<"order","book",":","s1">>), cut so that every substring relation      *)
(* between the keys used here is a contiguous-subsequence relation.        *)
(***************************************************************************)
EXTENDS Integers, Sequences, FiniteSets, TLC

\* ------------------------------------------------------------------ bounds
MaxSockets == 3      \* WebSocket objects created in one behaviour
MaxLen == 2          \* length of a topic list of the registry specification
MaxTime == 2         \* seconds the clock of the URL specification advances

\* --------------------------------------------------------- ws readyState
CONNECTING == "CONNECTING"
OPEN == "OPEN"
CLOSING == "CLOSING"
CLOSED == "CLOSED"

\* -------------------------------------------------------------- strings
Colon == ":"
orderbook == <<"order", "book">>
trade == <<"trade">>
order == <<"order">>
usertrade == <<"user", "trade">>
wallet == <<"wallet">>
deposit == <<"deposit">>
withdrawal == <<"withdrawal">>
admin == <<"admin">>
unknownTopic == <<"foo">>

FilterableTopics == {orderbook, trade}
SubscribePrivateTopics_NoUsertrade == {order, wallet, deposit, withdrawal, admin}
SubscribePrivateTopics == {order, usertrade, wallet, deposit, withdrawal, admin}
UnsubscribePrivateTopics == {order, wallet, deposit, withdrawal, admin}
ClosedTopics == FilterableTopics \cup SubscribePrivateTopics

\* `${topic}:${symbol}`
Key(topic, symbol) == topic \o <<Colon>> \o symbol

\* String.prototype.includes
StrIncludes(e, sub) ==
    \E i \in 1..(Len(e) - Len(sub) + 1) : SubSeq(e, i, i + Len(sub) - 1) = sub

\* String.prototype.split(':'): the pieces between the colons
RECURSIVE Split(_)
Split(e) ==
    IF \A i \in 1..Len(e) : e[i] # Colon
    THEN <<e>>
    ELSE LET i == CHOOSE j \in 1..Len(e) :
                     e[j] = Colon /\ \A k \in 1..(j - 1) : e[k] # Colon
         IN  <<SubSeq(e, 1, i - 1)>> \o Split(SubSeq(e, i + 1, Len(e)))

\* const [topic, symbol] = event.split(':'); an absent symbol is undefined,
\* which is as falsy as the empty string: both are <<>> here
TopicOf(event) == Split(event)[1]
SymbolOf(event) == IF Len(Split(event)) >= 2 THEN Split(event)[2] ELSE <<>>

\* Array.prototype.includes
Includes(arr, x) == \E i \in 1..Len(arr) : arr[i] = x

\* lodash union(a, b): the unique values of a then b, in order of first occurrence
RECURSIVE Uniq(_, _)
Uniq(acc, arr) ==
    IF arr = <<>> THEN acc
    ELSE Uniq(IF Includes(acc, Head(arr)) THEN acc ELSE Append(acc, Head(arr)), Tail(arr))
Union(a, b) == Uniq(<<>>, a \o b)

\* JSON.stringify({ op, args: [arg] })
Frame(op, arg) == [op |-> op, args |-> <<arg>>]

\* ---------------------------------------------------------------- state
VARIABLES
    ws,                \* this.ws: 0 is null, else the index of a socket
    readyState,        \* readyState[s] of every WebSocket created so far
    sockEvents,        \* sockEvents[s]: the listener table (_events) of socket s,
                       \* named by the socket it was first built on
    rejected,          \* sockets that emitted unexpected-response (handshake over)
    heartbeat,         \* sockets setWsHeartbeat was called on, timers not yet cleared
    wsEvents,          \* this.wsEvents
    wsReconnect,       \* this.wsReconnect
    wsEventListeners,  \* this.wsEventListeners: 0 is null, else a listener table
    initialConnection, \* this.initialConnection
    timers,            \* pending setTimeout(() => this.connect(this.wsEvents))
    sent,              \* the frames written with this.ws.send by the last step
    last,              \* the last step: its operation, its argument, its socket
    err,               \* the error the last step raised ("none" if it returned)
    uncaught,          \* TRUE once a handler or timer callback has thrown
    handlerOn,         \* listener table holding the caller's own handler (0: none)
    heard,             \* the last step ran the caller's handler
    caller,            \* what the caller has done so far: "new" (no connect yet),
                       \* "first" (one connect, no successful disconnect),
                       \* "stopped" (disconnect() succeeded, no connect since),
                       \* "again" (a connect after another connect or disconnect)
    userClosed,        \* the sockets a successful disconnect() has closed
    apiKey,            \* this.apiKey ("" stands for every falsy value)
    apiSecret,         \* this.apiSecret
    apiExpiresAfter,   \* this.apiExpiresAfter
    now,               \* moment().unix()
    url,               \* url[s]: the URL socket s was created with
    lifecycle          \* lifecycle[t]: how many times connect() has registered its
                       \* four handlers on listener table t

vars == <<ws, readyState, sockEvents, rejected, heartbeat, wsEvents, wsReconnect,
          wsEventListeners, initialConnection, timers, sent, last, err, uncaught,
          handlerOn, heard, caller, userClosed, apiKey, apiSecret, apiExpiresAfter,
          now, url, lifecycle>>

Sockets == 1..Len(readyState)
NoEvents == <<>>
NotConnected == "Websocket not connected"
TypeError == "TypeError"

\* this.wsConnected = () => this.ws && this.ws.readyState === WebSocket.OPEN
wsConnectedIn_HandleOnly(handle, rs) == handle # 0
wsConnectedIn(handle, rs) == handle # 0 /\ rs[handle] = OPEN
wsConnected == wsConnectedIn(ws, readyState)

\* a session is live while it is connecting (handshake not answered) or open
Live(s) == \/ readyState[s] = OPEN
           \/ readyState[s] = CONNECTING /\ s \notin rejected

\* constructor(opts): opts.apiExpiresAfter || 60, with 0 for an absent option
Constructed(key, secret, expiresAfter) ==
    /\ apiKey = key
    /\ apiSecret = secret
    /\ apiExpiresAfter = (IF expiresAfter = 0 THEN 60 ELSE expiresAfter)
    /\ now = 0
    /\ url = <<>>
    /\ lifecycle = [t \in 1..MaxSockets |-> 0]
    /\ ws = 0
    /\ readyState = <<>>
    /\ sockEvents = <<>>
    /\ rejected = {}
    /\ heartbeat = {}
    /\ wsEvents = <<>>
    /\ wsReconnect = TRUE
    /\ wsEventListeners = 0
    /\ initialConnection = FALSE
    /\ timers = 0
    /\ sent = <<>>
    /\ last = [op |-> "new", events |-> NoEvents, sock |-> 0]
    /\ err = "none"
    /\ uncaught = FALSE
    /\ handlerOn = 0
    /\ heard = FALSE
    /\ caller = "new"
    /\ userClosed = {}

\* new HollaExKit() with the default options
Init == Constructed("", "", 60)

\* ------------------------------------------------- subscribe / unsubscribe
\* line 5523 negated: the event is skipped when it is already in this.wsEvents,
\* except during the replay of the open handler
AlreadyDesired_NoReplayBypass(ev, event, init) == Includes(ev, event)
AlreadyDesired(ev, event, init) == Includes(ev, event) /\ ~init

\* line 5529 negated: a symbol-scoped key is suppressed when the bare topic is
\* in this.wsEvents
CoveredByBare_Never(ev, topic) == FALSE
CoveredByBare(ev, topic) == Includes(ev, topic)

\* lines 5536, 5547, 5567: this.wsEvents is written only outside the replay
Records_Always(init) == TRUE
Records(init) == ~init

\* one iteration of each(events, ...) in subscribe(): st.ev is this.wsEvents,
\* st.out the frames sent so far, init is this.initialConnection
SubscribeEvent(st, event, init) ==
    LET topic == TopicOf(event)
        symbol == SymbolOf(event)
        grow(ev) == IF Records(init) THEN Union(ev, <<event>>) ELSE ev
    IN
    IF AlreadyDesired(st.ev, event, init) THEN st
    ELSE IF topic \in FilterableTopics THEN
        IF symbol # <<>> THEN
            IF ~CoveredByBare(st.ev, topic)
            THEN [ev |-> grow(st.ev),
                  out |-> Append(st.out, Frame("subscribe", Key(topic, symbol)))]
            ELSE st
        ELSE [ev |-> IF Records(init)
                     THEN Union(SelectSeq(st.ev,
                                    LAMBDA e : ~StrIncludes(e, topic \o <<Colon>>)),
                                <<event>>)
                     ELSE st.ev,
              out |-> Append(st.out, Frame("subscribe", topic))]
    ELSE IF topic \in SubscribePrivateTopics THEN
        [ev |-> grow(st.ev), out |-> Append(st.out, Frame("subscribe", topic))]
    ELSE st

RECURSIVE SubscribeAll(_, _, _)
SubscribeAll(st, events, init) ==
    IF events = <<>> THEN st
    ELSE SubscribeAll(SubscribeEvent(st, Head(events), init), Tail(events), init)

\* line 5588: unsubscribe() acts on an event only when this.wsEvents holds it
Subscribed_Always(ev, event) == TRUE
Subscribed(ev, event) == Includes(ev, event)

\* one iteration of each(events, ...) in unsubscribe()
UnsubscribeEvent(st, event) ==
    LET topic == TopicOf(event)
        symbol == SymbolOf(event)
        drop(ev) == SelectSeq(ev, LAMBDA e : e # event)
    IN
    IF ~Subscribed(st.ev, event) THEN st
    ELSE IF topic \in FilterableTopics THEN
        [ev |-> drop(st.ev),
         out |-> Append(st.out, Frame("unsubscribe",
                                      IF symbol # <<>> THEN Key(topic, symbol) ELSE topic))]
    ELSE IF topic \in UnsubscribePrivateTopics THEN
        [ev |-> drop(st.ev), out |-> Append(st.out, Frame("unsubscribe", topic))]
    ELSE st

RECURSIVE UnsubscribeAll(_, _)
UnsubscribeAll(st, events) ==
    IF events = <<>> THEN st
    ELSE UnsubscribeAll(UnsubscribeEvent(st, Head(events)), Tail(events))

\* ------------------------------------------------------------ bookkeeping
Step(op, events, sock, frames, e, threw) ==
    /\ last' = [op |-> op, events |-> events, sock |-> sock]
    /\ sent' = frames
    /\ err' = e
    /\ uncaught' = threw
    /\ heard' = FALSE
    /\ UNCHANGED <<apiKey, apiSecret, apiExpiresAfter>>

Running == ~uncaught

\* ---------------------------------------------------------------- connect
\* this.wsUrl for the default apiURL
wsUrl == "wss://api.hollaex.com/stream"

\* createSignature of ./utils, an opaque function of its four arguments
createSignature(secret, verb, path, expires) ==
    [secret |-> secret, verb |-> verb, path |-> path, expires |-> expires]

\* line 5425: this.apiKey && this.apiSecret
Authenticated_KeyOnly(key, secret) == key # ""
Authenticated(key, secret) == key # "" /\ secret # ""

\* lines 5424-5435: the URL as its base and the query parameters appended to it
ConnectUrl ==
    LET apiExpires == now + apiExpiresAfter
        signature == createSignature(apiSecret, "CONNECT", "/stream", apiExpires)
    IN  IF Authenticated(apiKey, apiSecret)
        THEN [base |-> wsUrl,
              query |-> << [name |-> "api-key", value |-> apiKey],
                           [name |-> "api-signature", value |-> signature],
                           [name |-> "api-expires", value |-> apiExpires] >>]
        ELSE [base |-> wsUrl, query |-> <<>>]

\* the body of connect(events), lines 5420-5441: the new socket takes the saved
\* listener table if there is one, else gets the four lifecycle handlers
ListenerTable_AlwaysFresh(s) == s
ListenerTable(s) == IF wsEventListeners # 0 THEN wsEventListeners ELSE s

\* lines 5439-5442: the four handlers are registered in the else branch only
Registers(saved) == saved = 0

ConnectBody(events) ==
    LET s == Len(readyState) + 1 IN
    /\ wsReconnect' = TRUE
    /\ wsEvents' = events
    /\ initialConnection' = TRUE
    /\ url' = Append(url, ConnectUrl)
    /\ readyState' = Append(readyState, CONNECTING)
    /\ ws' = s
    /\ sockEvents' = Append(sockEvents, ListenerTable(s))
    /\ lifecycle' = IF Registers(wsEventListeners)
                    THEN [lifecycle EXCEPT ![ListenerTable(s)] = @ + 1]
                    ELSE lifecycle
    /\ UNCHANGED <<wsEventListeners, rejected, heartbeat, handlerOn, now>>

\* the caller calls connect(events)
Connect(events) ==
    /\ Running
    /\ Len(readyState) < MaxSockets
    /\ ConnectBody(events)
    /\ Step("connect", events, 0, <<>>, "none", FALSE)
    /\ caller' = IF caller = "new" THEN "first" ELSE "again"
    /\ UNCHANGED <<timers, userClosed>>

\* a reconnect timer fires: () => { this.connect(this.wsEvents); }
ReconnectTimer_Suppressed ==
    /\ Running
    /\ timers > 0
    /\ Len(readyState) < MaxSockets
    /\ timers' = timers - 1
    /\ IF wsReconnect
       THEN ConnectBody(wsEvents)
       ELSE UNCHANGED <<wsReconnect, wsEvents, initialConnection, url, readyState, ws,
                        sockEvents, lifecycle, wsEventListeners, rejected, heartbeat,
                        handlerOn, now>>
    /\ Step("reconnect", NoEvents, 0, <<>>, "none", FALSE)
    /\ UNCHANGED <<caller, userClosed>>
ReconnectTimer ==
    /\ Running
    /\ timers > 0
    /\ Len(readyState) < MaxSockets
    /\ timers' = timers - 1
    /\ ConnectBody(wsEvents)
    /\ Step("reconnect", NoEvents, 0, <<>>, "none", FALSE)
    /\ UNCHANGED <<caller, userClosed>>

\* ------------------------------------------------------------- disconnect
Disconnect ==
    /\ Running
    /\ IF wsConnected
       THEN /\ wsReconnect' = FALSE
            /\ readyState' = [readyState EXCEPT ![ws] = CLOSING]
            /\ Step("disconnect", NoEvents, 0, <<>>, "none", FALSE)
            /\ caller' = "stopped"
            /\ userClosed' = userClosed \cup {ws}
       ELSE /\ Step("disconnect", NoEvents, 0, <<>>, NotConnected, FALSE)
            /\ UNCHANGED <<wsReconnect, readyState, caller, userClosed>>
    /\ UNCHANGED <<ws, sockEvents, rejected, heartbeat, wsEvents, wsEventListeners,
                   initialConnection, timers, handlerOn, now, url, lifecycle>>

\* ------------------------------------------------ subscribe / unsubscribe
Subscribe(events) ==
    /\ Running
    /\ IF wsConnected
       THEN LET r == SubscribeAll([ev |-> wsEvents, out |-> <<>>], events,
                                  initialConnection)
            IN  /\ wsEvents' = r.ev
                /\ Step("subscribe", events, 0, r.out, "none", FALSE)
       ELSE /\ Step("subscribe", events, 0, <<>>, NotConnected, FALSE)
            /\ UNCHANGED wsEvents
    /\ UNCHANGED <<ws, readyState, sockEvents, rejected, heartbeat, wsReconnect,
                   wsEventListeners, initialConnection, timers, handlerOn, caller,
                   userClosed, now, url, lifecycle>>

Unsubscribe(events) ==
    /\ Running
    /\ IF wsConnected
       THEN LET r == UnsubscribeAll([ev |-> wsEvents, out |-> <<>>], events)
            IN  /\ wsEvents' = r.ev
                /\ Step("unsubscribe", events, 0, r.out, "none", FALSE)
       ELSE /\ Step("unsubscribe", events, 0, <<>>, NotConnected, FALSE)
            /\ UNCHANGED wsEvents
    /\ UNCHANGED <<ws, readyState, sockEvents, rejected, heartbeat, wsReconnect,
                   wsEventListeners, initialConnection, timers, handlerOn, caller,
                   userClosed, now, url, lifecycle>>

\* ----------------------------------------------------- lifecycle handlers
\* the 'unexpected-response' and 'error' listeners (same body, lines 5442-5474),
\* run when socket s emits op; rs is readyState as the emitter left it
FailureHandler(op, s, rs) ==
    IF ws = 0
    THEN \* this.ws.readyState on null
         /\ readyState' = rs
         /\ Step(op, NoEvents, s, <<>>, TypeError, TRUE)
         /\ UNCHANGED <<ws, wsEventListeners, timers>>
    ELSE /\ Step(op, NoEvents, s, <<>>, "none", FALSE)
         /\ IF rs[ws] = CLOSING
            THEN /\ readyState' = rs
                 /\ UNCHANGED <<ws, wsEventListeners, timers>>
            ELSE IF rs[ws] = OPEN
            THEN \* this.ws.close()
                 /\ readyState' = [rs EXCEPT ![ws] = CLOSING]
                 /\ UNCHANGED <<ws, wsEventListeners, timers>>
            ELSE IF wsReconnect
            THEN /\ readyState' = rs
                 /\ wsEventListeners' = sockEvents[ws]
                 /\ ws' = 0
                 /\ timers' = timers + 1
            ELSE /\ readyState' = rs
                 /\ wsEventListeners' = 0
                 /\ ws' = 0
                 /\ UNCHANGED timers

\* socket s answers the handshake with a non-101 response
OnUnexpectedResponse(s) ==
    /\ Running
    /\ readyState[s] = CONNECTING /\ s \notin rejected
    /\ rejected' = rejected \cup {s}
    /\ FailureHandler("unexpected-response", s, readyState)
    /\ UNCHANGED <<sockEvents, heartbeat, wsEvents, wsReconnect, initialConnection,
                   handlerOn, caller, userClosed, now, url, lifecycle>>

\* socket s fails: ws sets it CLOSING, then emits 'error'
OnError(s) ==
    /\ Running
    /\ Live(s)
    /\ FailureHandler("error", s, [readyState EXCEPT ![s] = CLOSING])
    /\ UNCHANGED <<sockEvents, rejected, heartbeat, wsEvents, wsReconnect,
                   initialConnection, handlerOn, caller, userClosed, now, url, lifecycle>>

\* socket s is closed (by the peer, or after close() or an error): ws sets it
\* CLOSED, then emits 'close' (lines 5476-5487); the close listeners that
\* setWsHeartbeat added to the same listener table clear their timers
OnClose(s) ==
    /\ Running
    /\ readyState[s] \in {OPEN, CLOSING}
    /\ readyState' = [readyState EXCEPT ![s] = CLOSED]
    /\ IF wsReconnect
       THEN IF ws = 0
            THEN \* this.ws._events on null
                 /\ Step("close", NoEvents, s, <<>>, TypeError, TRUE)
                 /\ UNCHANGED <<ws, wsEventListeners, timers, heartbeat>>
            ELSE /\ wsEventListeners' = sockEvents[ws]
                 /\ ws' = 0
                 /\ timers' = timers + 1
                 /\ heartbeat' = {h \in heartbeat : sockEvents[h] # sockEvents[s]}
                 /\ Step("close", NoEvents, s, <<>>, "none", FALSE)
       ELSE /\ wsEventListeners' = 0
            /\ ws' = 0
            /\ heartbeat' = {h \in heartbeat : sockEvents[h] # sockEvents[s]}
            /\ Step("close", NoEvents, s, <<>>, "none", FALSE)
            /\ UNCHANGED timers
    /\ UNCHANGED <<sockEvents, rejected, wsEvents, wsReconnect, initialConnection,
                   handlerOn, caller, userClosed, now, url, lifecycle>>

\* line 5494: this.initialConnection = false
AfterReplay_StillInitial == TRUE
AfterReplay == FALSE

\* socket s completes the handshake: ws sets it OPEN, then emits 'open'
\* (lines 5489-5500)
OnOpen(s) ==
    /\ Running
    /\ readyState[s] = CONNECTING /\ s \notin rejected
    /\ LET rs == [readyState EXCEPT ![s] = OPEN]
           r == SubscribeAll([ev |-> wsEvents, out |-> <<>>], wsEvents,
                             initialConnection)
       IN
       /\ readyState' = rs
       /\ IF Len(wsEvents) > 0 /\ ~wsConnectedIn(ws, rs)
          THEN \* this.subscribe(this.wsEvents) throws
               /\ Step("open", NoEvents, s, <<>>, NotConnected, TRUE)
               /\ UNCHANGED <<wsEvents, initialConnection, heartbeat>>
          ELSE /\ wsEvents' = IF Len(wsEvents) > 0 THEN r.ev ELSE wsEvents
               /\ initialConnection' = AfterReplay
               /\ IF ws = 0
                  THEN \* setWsHeartbeat(null, ...)
                       /\ Step("open", NoEvents, s, <<>>, TypeError, TRUE)
                       /\ UNCHANGED heartbeat
                  ELSE /\ heartbeat' = heartbeat \cup {ws}
                       /\ Step("open", NoEvents, s,
                               IF Len(wsEvents) > 0 THEN r.out ELSE <<>>, "none", FALSE)
    /\ UNCHANGED <<ws, sockEvents, rejected, wsReconnect, wsEventListeners, timers,
                   handlerOn, caller, userClosed, now, url, lifecycle>>

\* the heartbeat of socket s saw no message within pingTimeout: ws.close()
HeartbeatTimeout_Stops(s) ==
    /\ Running
    /\ s \in heartbeat
    /\ readyState[s] = OPEN
    /\ readyState' = [readyState EXCEPT ![s] = CLOSING]
    /\ wsReconnect' = FALSE
    /\ Step("heartbeat-timeout", NoEvents, s, <<>>, "none", FALSE)
    /\ UNCHANGED <<ws, sockEvents, rejected, heartbeat, wsEvents,
                   wsEventListeners, initialConnection, timers, handlerOn, caller,
                   userClosed, now, url, lifecycle>>
HeartbeatTimeout(s) ==
    /\ Running
    /\ s \in heartbeat
    /\ readyState[s] = OPEN
    /\ readyState' = [readyState EXCEPT ![s] = CLOSING]
    /\ Step("heartbeat-timeout", NoEvents, s, <<>>, "none", FALSE)
    /\ UNCHANGED <<ws, sockEvents, rejected, heartbeat, wsEvents, wsReconnect,
                   wsEventListeners, initialConnection, timers, handlerOn, caller,
                   userClosed, now, url, lifecycle>>

\* ------------------------------------------------- the caller's own handler
\* client.ws.on('message', handler), once, on the first session
RegisterHandler ==
    /\ Running
    /\ ws = 1
    /\ handlerOn = 0
    /\ handlerOn' = sockEvents[ws]
    /\ Step("on", NoEvents, 0, <<>>, "none", FALSE)
    /\ UNCHANGED <<ws, readyState, sockEvents, rejected, heartbeat, wsEvents,
                   wsReconnect, wsEventListeners, initialConnection, timers, caller,
                   userClosed, now, url, lifecycle>>

\* socket s emits 'message': the listeners of its table run
OnMessage(s) ==
    /\ Running
    /\ readyState[s] = OPEN
    /\ last' = [op |-> "message", events |-> NoEvents, sock |-> s]
    /\ sent' = <<>>
    /\ err' = "none"
    /\ uncaught' = FALSE
    /\ heard' = (handlerOn # 0 /\ sockEvents[s] = handlerOn)
    /\ UNCHANGED <<ws, readyState, sockEvents, rejected, heartbeat, wsEvents,
                   wsReconnect, wsEventListeners, initialConnection, timers, handlerOn,
                   caller, userClosed, apiKey, apiSecret, apiExpiresAfter, now, url, lifecycle>>

\* ------------------------------------------------------------ the caller
s1 == <<"s1">>
s2 == <<"s2">>

\* the topic lists the caller passes in the lifecycle specification
ConnectLists == {<<>>, <<Key(orderbook, s1)>>}
CallLists == {<<wallet>>}

Next ==
    \/ \E events \in ConnectLists : Connect(events)
    \/ ReconnectTimer
    \/ Disconnect
    \/ \E events \in CallLists : Subscribe(events)
    \/ \E events \in CallLists : Unsubscribe(events)
    \/ \E s \in Sockets : OnUnexpectedResponse(s)
    \/ \E s \in Sockets : OnError(s)
    \/ \E s \in Sockets : OnClose(s)
    \/ \E s \in Sockets : OnOpen(s)
    \/ \E s \in Sockets : HeartbeatTimeout(s)
    \/ RegisterHandler
    \/ \E s \in Sockets : OnMessage(s)

Spec == Init /\ [][Next]_vars

\* --------------------------------------------------- registry specification
\* One connect with any topic list, the session opening, and subscribe and
\* unsubscribe calls with any lists without repetition: the keys of one
\* behaviour are drawn from one of these sets.
Lists(keys, n) == UNION {[1..k -> keys] : k \in 0..n}
Range(seq) == {seq[i] : i \in 1..Len(seq)}
NoRepeat(seq) == Cardinality(Range(seq)) = Len(seq)

RegistryUniverses ==
    { {orderbook, Key(orderbook, s1), Key(orderbook, s2), wallet},
      {trade, Key(trade, s1), usertrade, Key(usertrade, s1)},
      {order, deposit, withdrawal, admin},
      {orderbook, Key(trade, s1), unknownTopic, Key(unknownTopic, s1)},
      {wallet, Key(wallet, s1), order, Key(order, s1)} }

RegistryLists(held) ==
    UNION {Lists(U, MaxLen) : U \in {V \in RegistryUniverses : Range(held) \subseteq V}}
CallListsReg(held) == {l \in RegistryLists(held) : NoRepeat(l)}

NextReg ==
    \/ caller = "new" /\ \E events \in RegistryLists(<<>>) : Connect(events)
    \/ \E s \in Sockets : OnOpen(s)
    \/ \E events \in CallListsReg(wsEvents) : Subscribe(events)
    \/ \E events \in CallListsReg(wsEvents) : Unsubscribe(events)

SpecReg == Init /\ [][NextReg]_vars

\* ------------------------------------------------- reconnect specification
\* One connect with any topic list, every event of its sessions, the
\* reconnects that follow, and subscribe and unsubscribe calls of one key.
NextRec ==
    \/ caller = "new" /\ \E events \in RegistryLists(<<>>) : Connect(events)
    \/ ReconnectTimer
    \/ \E events \in CallLists : Subscribe(events)
    \/ \E events \in CallLists : Unsubscribe(events)
    \/ \E s \in Sockets : OnUnexpectedResponse(s)
    \/ \E s \in Sockets : OnError(s)
    \/ \E s \in Sockets : OnClose(s)
    \/ \E s \in Sockets : OnOpen(s)
    \/ \E s \in Sockets : HeartbeatTimeout(s)

SpecRec == Init /\ [][NextRec]_vars

\* ------------------------------------------------------- URL specification
\* A client constructed with any credentials and expiry window, one connect
\* call, the failures of its sessions and the reconnects that follow, while
\* the clock advances.
ApiKeys == {"", "key"}
ApiSecrets == {"", "secret"}
ExpiryWindows == {0, 1, 60}

InitUrl ==
    \E key \in ApiKeys, secret \in ApiSecrets, expiresAfter \in ExpiryWindows :
        Constructed(key, secret, expiresAfter)

\* a second passes
Tick ==
    /\ Running
    /\ now < MaxTime
    /\ now' = now + 1
    /\ Step("tick", NoEvents, 0, <<>>, "none", FALSE)
    /\ UNCHANGED <<ws, readyState, sockEvents, rejected, heartbeat, wsEvents,
                   wsReconnect, wsEventListeners, initialConnection, timers, handlerOn,
                   caller, userClosed, url, lifecycle>>

NextUrl ==
    \/ Tick
    \/ caller = "new" /\ Connect(<<>>)
    \/ ReconnectTimer
    \/ \E s \in Sockets : OnUnexpectedResponse(s)
    \/ \E s \in Sockets : OnError(s)
    \/ \E s \in Sockets : OnClose(s)
    \/ \E s \in Sockets : OnOpen(s)

SpecUrl == InitUrl /\ [][NextUrl]_vars

\* ================================================================= claims
LiveSessions == {s \in Sockets : Live(s)}

\* C1: in every reachable state at most one session created by the client is
\* live (connecting or open).
C1_AtMostOneLiveSession == Cardinality(LiveSessions) <= 1

\* C2: once disconnect() has succeeded and until the caller calls connect again,
\* no reconnect timer opens a session.
C2_NoReconnectAfterDisconnect == ~(caller = "stopped" /\ last.op = "reconnect")

\* C3: the close event of a session that disconnect() closed arms no reconnect
\* timer, clears the connection handle and the saved listener table, and leaves
\* the client stopped.
C3_CloseAfterDisconnectStaysStopped ==
    [][\A s \in Sockets :
         (s \in userClosed /\ readyState[s] = CLOSING /\ readyState'[s] = CLOSED)
         => /\ timers' = timers
            /\ ws' = 0
            /\ wsEventListeners' = 0
            /\ wsReconnect' = FALSE]_vars

\* C4: after a session failure (close, error, unexpected response) with no
\* disconnect() by the caller, the client is running and has a session or a
\* pending reconnect.
C4_FailureSchedulesReconnect ==
    (userClosed = {} /\ last.op \in {"close", "error", "unexpected-response"})
    => (~uncaught /\ (ws # 0 \/ timers > 0))

\* one subscribe frame per key, in the order of the list
ReplayOf(ev) == [i \in 1..Len(ev) |-> Frame("subscribe", ev[i])]

C6_HandlerSurvivesReconnects ==
    (caller = "first" /\ handlerOn # 0)
    => /\ ws # 0 => sockEvents[ws] = handlerOn
       /\ (last.op = "message" /\ last.sock = ws) => heard

\* the handler hears a message of the third session
C6_Witness ==
    /\ caller = "first" /\ handlerOn = 1
    /\ ws = 3 /\ last.op = "message" /\ last.sock = 3 /\ heard

IsSymbolKey(e, topic) == TopicOf(e) = topic /\ SymbolOf(e) # <<>>
HasSymbolKey(ev, topic) == \E i \in 1..Len(ev) : IsSymbolKey(ev[i], topic)

\* C7: the DesiredSet never holds the bare key of a filterable topic together
\* with a symbol-scoped key of that topic.
C7_NoBareWithSymbolKey ==
    \A topic \in FilterableTopics :
        ~(Includes(wsEvents, topic) /\ HasSymbolKey(wsEvents, topic))

Symbols == {s1, s2}

\* C8: on an open session whose DesiredSet holds the bare key T, subscribe(['T:S'])
\* writes no frame, raises nothing and leaves the DesiredSet unchanged.
C8_SymbolUnderBareIsNoop ==
    [][\A topic \in FilterableTopics : \A symbol \in Symbols :
         (/\ wsConnected
          /\ Includes(wsEvents, topic)
          /\ last'.op = "subscribe"
          /\ last'.events = <<Key(topic, symbol)>>)
         => (sent' = <<>> /\ wsEvents' = wsEvents /\ err' = "none")]_vars

\* subscribe(['orderbook:s1']) was suppressed by the bare key, not by the key
\* being there already
C8_Witness ==
    /\ wsConnected
    /\ last.op = "subscribe" /\ last.events = <<Key(orderbook, s1)>>
    /\ err = "none" /\ sent = <<>>
    /\ Includes(wsEvents, orderbook)
    /\ ~Includes(wsEvents, Key(orderbook, s1))

\* C9: on an open session whose DesiredSet holds symbol-scoped keys of T,
\* subscribe(['T']) writes exactly one subscribe frame for T, removes every
\* symbol-scoped key of T and adds the bare key.
C9_BareSubscribePurges ==
    [][\A topic \in FilterableTopics :
         (/\ wsConnected
          /\ HasSymbolKey(wsEvents, topic)
          /\ last'.op = "subscribe"
          /\ last'.events = <<topic>>)
         => /\ sent' = <<Frame("subscribe", topic)>>
            /\ ~HasSymbolKey(wsEvents', topic)
            /\ Includes(wsEvents', topic)]_vars

\* the frame that cancels the subscription of a key
UnsubscribeFrame(key) ==
    Frame("unsubscribe", IF TopicOf(key) \in FilterableTopics THEN key ELSE TopicOf(key))

\* C10: on an open session, unsubscribe of one key of the DesiredSet whose topic
\* is in the closed set writes exactly the matching unsubscribe frame and
\* removes that key and no other.
C10_UnsubscribeRemovesKey ==
    [][\A key \in Range(wsEvents) :
         (/\ wsConnected
          /\ TopicOf(key) \in ClosedTopics
          /\ last'.op = "unsubscribe"
          /\ last'.events = <<key>>)
         => /\ sent' = <<UnsubscribeFrame(key)>>
            /\ Range(wsEvents') = Range(wsEvents) \ {key}]_vars

\* C11: on an open session, unsubscribe of keys none of which is in the
\* DesiredSet writes no frame, leaves the DesiredSet unchanged and raises nothing.
C11_UnsubscribeAbsentIsNoop ==
    [][(/\ wsConnected
        /\ last'.op = "unsubscribe"
        /\ last'.events # <<>>
        /\ Range(last'.events) \cap Range(wsEvents) = {})
       => (sent' = <<>> /\ wsEvents' = wsEvents /\ err' = "none")]_vars

\* unsubscribe(['orderbook:s2']) on an open session that holds orderbook:s1 only
C11_Witness ==
    /\ wsConnected
    /\ last.op = "unsubscribe" /\ last.events = <<Key(orderbook, s2)>>
    /\ wsEvents = <<Key(orderbook, s1)>>
    /\ sent = <<>> /\ err = "none"

\* C12: for a filterable topic T and a symbol S, the session of connect([T])
\* opening writes exactly subscribe(T); with the DesiredSet [T], subscribe(['T:S'])
\* writes nothing and leaves it [T], and unsubscribe([T]) writes exactly
\* unsubscribe(T) and leaves it empty.
C12_BareTopicScenario ==
    [][\A topic \in FilterableTopics : \A symbol \in Symbols :
         /\ (/\ last.op = "connect" /\ last.events = <<topic>>
             /\ last'.op = "open")
            => (/\ sent' = <<Frame("subscribe", topic)>>
                /\ wsEvents' = <<topic>>
                /\ wsConnected')
         /\ (/\ wsConnected /\ wsEvents = <<topic>>
             /\ last'.op = "subscribe" /\ last'.events = <<Key(topic, symbol)>>)
            => (sent' = <<>> /\ wsEvents' = <<topic>> /\ err' = "none")
         /\ (/\ wsConnected /\ wsEvents = <<topic>>
             /\ last'.op = "unsubscribe" /\ last'.events = <<topic>>)
            => (/\ sent' = <<Frame("unsubscribe", topic)>>
                /\ wsEvents' = <<>>
                /\ err' = "none")]_vars

\* the last step of the scenario for trade: the DesiredSet is empty again and
\* the one frame written is unsubscribe(trade)
C12_Witness ==
    /\ wsConnected
    /\ last.op = "unsubscribe" /\ last.events = <<trade>>
    /\ sent = <<Frame("unsubscribe", trade)>>
    /\ wsEvents = <<>> /\ err = "none"

\* C13: disconnect() called while no session is open raises the not-connected
\* error and changes neither the reconnect flag, the DesiredSet, the connection
\* handle, the saved listener table, the pending timers nor any session.
C13_DisconnectWhileNotOpenFails ==
    [][(/\ last'.op = "disconnect"
        /\ \A s \in Sockets : readyState[s] # OPEN)
       => /\ err' = NotConnected
          /\ UNCHANGED <<wsReconnect, wsEvents, ws, wsEventListeners, timers,
                         readyState>>]_vars

\* disconnect() failed while the client was waiting to reconnect
C13_Witness ==
    /\ last.op = "disconnect" /\ err = NotConnected
    /\ ws = 0 /\ timers > 0 /\ wsReconnect
    /\ \A s \in Sockets : readyState[s] # OPEN

\* C14: disconnect() called while the current session is connecting returns
\* normally, clears the reconnect flag and closes the session.
C14_DisconnectWhileConnectingStops ==
    [][(/\ ws # 0 /\ readyState[ws] = CONNECTING /\ ws \notin rejected
        /\ last'.op = "disconnect")
       => /\ err' = "none"
          /\ ~wsReconnect'
          /\ readyState'[ws] \in {CLOSING, CLOSED}]_vars

\* the client is Open: it has a connection handle and that session is open
ClientOpen == ws # 0 /\ readyState[ws] = OPEN

\* C15: subscribe and unsubscribe called while the client is not Open raise the
\* not-connected error, write no frame and leave the DesiredSet unchanged.
C15_CallsOutsideOpenFail ==
    [][(~ClientOpen /\ last'.op \in {"subscribe", "unsubscribe"})
       => (err' = NotConnected /\ sent' = <<>> /\ wsEvents' = wsEvents)]_vars

\* unsubscribe failed on a session that disconnect() is closing
C15_Witness ==
    /\ last.op = "unsubscribe" /\ err = NotConnected
    /\ ws # 0 /\ ws \in userClosed /\ readyState[ws] = CLOSING
    /\ caller = "stopped"

\* C16: the reconnect flag is cleared by no step but a disconnect() call that
\* returns normally.
C16_OnlyDisconnectStops ==
    [][(wsReconnect /\ ~wsReconnect')
       => (last'.op = "disconnect" /\ err' = "none")]_vars

\* a session of the first connect closed with no disconnect(): the flag is
\* still set and a reconnect is pending
C16_Witness ==
    /\ last.op = "close" /\ wsReconnect /\ timers > 0
    /\ caller = "first" /\ userClosed = {}
    /\ \E s \in Sockets : readyState[s] = CLOSED

\* C17: no lifecycle handler and no timer callback throws.
C17_HandlersNeverThrow == ~uncaught

\* C18: the open handler starts the heartbeat on the session that opened, and
\* the close of a session with a heartbeat, while reconnect is enabled, clears
\* the connection handle and arms one reconnect timer without throwing.
C18_HeartbeatPerSession ==
    [][\A s \in Sockets :
         /\ (readyState[s] = CONNECTING /\ readyState'[s] = OPEN)
            => s \in heartbeat'
         /\ (/\ s \in heartbeat /\ wsReconnect
             /\ readyState[s] = CLOSING /\ readyState'[s] = CLOSED)
            => (timers' = timers + 1 /\ ws' = 0 /\ ~uncaught')]_vars

\* the last socket created
Attempt(urls) == urls[Len(urls)]

\* C19: every connection attempt, of a connect call or of a reconnect timer,
\* uses the bare stream URL when the key or the secret is absent, and otherwise
\* the stream URL with exactly api-key, api-signature and api-expires, the
\* expiry being the time of the attempt plus the expiry window and the
\* signature that of (secret, 'CONNECT', '/stream', expiry).
C19_ConnectionUrl ==
    [][Len(url') = Len(url) + 1 =>
         LET expiry == now + apiExpiresAfter IN
         /\ Attempt(url').base = wsUrl
         /\ IF apiKey = "" \/ apiSecret = ""
            THEN Attempt(url').query = <<>>
            ELSE /\ Len(Attempt(url').query) = 3
                 /\ Attempt(url').query[1] = [name |-> "api-key", value |-> apiKey]
                 /\ Attempt(url').query[2] =
                        [name |-> "api-signature",
                         value |-> createSignature(apiSecret, "CONNECT", "/stream", expiry)]
                 /\ Attempt(url').query[3] = [name |-> "api-expires", value |-> expiry]]_vars

\* a reconnect, some seconds after the first attempt, of a client with both
\* credentials and the default window: the expiry follows the clock
C19_Witness ==
    /\ last.op = "reconnect" /\ Len(url) = 2
    /\ apiKey = "key" /\ apiSecret = "secret" /\ apiExpiresAfter = 60
    /\ url[1].query[3].value = 60
    /\ url[2].query[3].value = 60 + now /\ now > 0

\* the frame subscribe or unsubscribe writes for a key of the closed set
FrameFor(op, key) ==
    Frame(op, IF TopicOf(key) \in FilterableTopics THEN key ELSE TopicOf(key))

\* the frames are those of keys of the list, in the order of the list
InListOrder(frames, op, events) ==
    /\ \A i \in 1..Len(frames) :
         \E a \in 1..Len(events) : frames[i] = FrameFor(op, events[a])
    /\ \A i, j \in 1..Len(frames) :
         i < j => \E a, b \in 1..Len(events) :
                     /\ a < b
                     /\ frames[i] = FrameFor(op, events[a])
                     /\ frames[j] = FrameFor(op, events[b])

\* C20: the open handler writes one subscribe frame per key of the replay set
\* (keys of the closed set), in the order of the set; a subscribe or unsubscribe
\* call writes frames only after the replay, and writes them in list order.
C20_ReplayThenCallOrder ==
    [][/\ \A s \in Sockets :
            (/\ readyState[s] = CONNECTING /\ readyState'[s] = OPEN
             /\ \A i \in 1..Len(wsEvents) : TopicOf(wsEvents[i]) \in ClosedTopics)
            => sent' = [i \in 1..Len(wsEvents) |-> FrameFor("subscribe", wsEvents[i])]
       /\ (last'.op \in {"subscribe", "unsubscribe"} /\ sent' # <<>>)
            => (~initialConnection /\ InListOrder(sent', last'.op, last'.events))]_vars

\* C21: this.wsEvents changes in no step but a connect, subscribe or
\* unsubscribe call of the caller: not in a transport event, a heartbeat
\* timeout, a reconnect or the replay of the open handler.
C21_DesiredSetChangedByCallsOnly ==
    [][wsEvents' # wsEvents
       => last'.op \in {"connect", "subscribe", "unsubscribe"}]_vars

\* the replay on a reconnected session of a set that holds a symbol-scoped key
\* before its bare key: subscribe(trade) is written and the set is as it was
C21_Witness ==
    /\ last.op = "open" /\ last.sock = ws /\ ws > 1
    /\ wsEvents = <<Key(trade, s1), trade>>
    /\ sent = <<Frame("subscribe", trade)>>

\* C22: on an open session, subscribe(['T']) for a filterable topic T keeps in
\* the DesiredSet every key whose topic is not T.
C22_BareSubscribeKeepsOtherTopics ==
    [][\A topic \in FilterableTopics :
         (/\ wsConnected
          /\ last'.op = "subscribe"
          /\ last'.events = <<topic>>)
         => \A key \in Range(wsEvents) :
                TopicOf(key) # topic => key \in Range(wsEvents')]_vars

\* C23: a key whose topic is not in the closed set never is in the DesiredSet,
\* and subscribe or unsubscribe of such a key writes nothing and changes nothing.
C23_UnknownKeysIgnored ==
    [][/\ \A key \in Range(wsEvents') : TopicOf(key) \in ClosedTopics
       /\ (/\ wsConnected
           /\ last'.op \in {"subscribe", "unsubscribe"}
           /\ Len(last'.events) = 1
           /\ TopicOf(last'.events[1]) \notin ClosedTopics)
          => (sent' = <<>> /\ wsEvents' = wsEvents /\ err' = "none")]_vars

\* C24: on an open session, subscribe(L) right after a subscribe(L) that
\* returned writes no frame and leaves the DesiredSet as it is.
C24_SubscribeIdempotent ==
    [][(/\ wsConnected
        /\ last.op = "subscribe" /\ err = "none"
        /\ last'.op = "subscribe" /\ last'.events = last.events)
       => (sent' = <<>> /\ wsEvents' = wsEvents /\ err' = "none")]_vars

\* C25: on an open session, subscribe of one key of a private topic that is not
\* in the DesiredSet writes exactly subscribe(topic) and adds the key; the
\* other keys of the DesiredSet stay.
C25_PrivateSubscribe ==
    [][\A topic \in {order, usertrade, wallet, deposit, withdrawal, admin} :
       \A key \in {topic} \cup {Key(topic, symbol) : symbol \in Symbols} :
         (/\ wsConnected
          /\ ~Includes(wsEvents, key)
          /\ last'.op = "subscribe"
          /\ last'.events = <<key>>)
         => /\ sent' = <<Frame("subscribe", topic)>>
            /\ Range(wsEvents') = Range(wsEvents) \cup {key}
            /\ err' = "none"]_vars

\* subscribe(['usertrade:s1']) wrote subscribe(usertrade) and added the key
C25_Witness ==
    /\ wsConnected
    /\ last.op = "subscribe" /\ last.events = <<Key(usertrade, s1)>>
    /\ sent = <<Frame("subscribe", usertrade)>>
    /\ Includes(wsEvents, Key(usertrade, s1))
    /\ err = "none"

\* C26: the frames written never leave a key of the DesiredSet uncovered.  A
\* key of a private topic is covered by subscribe(topic) alone, so on an open
\* session no call writes unsubscribe(topic) while a key of that topic stays
\* in the DesiredSet.
C26_WireCoversDesiredSet ==
    [][\A i \in 1..Len(sent') :
         sent'[i].op = "unsubscribe"
         => \A key \in Range(wsEvents') :
                TopicOf(key) \in {order, usertrade, wallet, deposit, withdrawal, admin}
                => sent'[i].args[1] # TopicOf(key)]_vars

\* C27: at most one reconnect timer is pending.
C27_AtMostOneTimer == timers <= 1

C29_ReplayFlagOffWhenOpen ==
    [][/\ initialConnection' => Len(readyState') > 0
       /\ wsConnected' => ~initialConnection'
       /\ (wsConnected /\ last'.op = "subscribe" /\ Len(last'.events) = 1)
          => (/\ ~initialConnection
              /\ sent' # <<>> => last'.events[1] \in Range(wsEvents'))]_vars

\* a subscribe call on a reconnected session recorded its key
C29_Witness ==
    /\ wsConnected /\ ws > 1 /\ ~initialConnection
    /\ last.op = "subscribe" /\ last.events = <<wallet>>
    /\ sent = <<Frame("subscribe", wallet)>>
    /\ Includes(wsEvents, wallet)

\* C30: the listener table of every session holds the four lifecycle handlers
\* exactly once; a connect call of a new or stopped client builds a fresh
\* table, and a reconnect reuses the saved one.
C30_LifecycleHandlersOnce ==
    [][/\ \A s \in 1..Len(sockEvents') : lifecycle'[sockEvents'[s]] = 1
       /\ (last'.op = "connect" /\ caller \in {"new", "stopped"})
          => sockEvents'[Len(sockEvents')] = Len(sockEvents')
       /\ last'.op = "reconnect"
          => (/\ wsEventListeners # 0
              /\ sockEvents'[Len(sockEvents')] = wsEventListeners)]_vars

====
